---------------------------- MODULE Spec2Model ----------------------------
(***************************************************************************)
(* Model of arak's SQLite backend (src/database/sqlite/mod.rs): the        *)
(* in-memory registry of prepared events, the committed SQLite storage     *)
(* (event tables and the event_block cursor table), and the four           *)
(* operations of the Database trait, each run inside one transaction.      *)
(***************************************************************************)
EXTENDS Integers, Sequences, FiniteSets, TLC

VARIABLES
    events,       \* SqliteInner.events: sanitized name -> PreparedEvent
    tables,       \* committed storage: table name -> [cols, rows]
    event_block,  \* committed storage: the event_block table, name -> cursor
    pc,           \* the caller: "idle" or "returned" (a call just returned)
    last,         \* the call that just returned: operation, arguments, result
    pre,          \* registry and storage as they were when that call started
    steps,        \* number of calls so far that changed registry or storage
    name_pair,    \* the event names this caller uses
    prepared      \* history: the names whose prepare_event has returned Ok

vars == <<events, tables, event_block, pc, last, pre, steps, name_pair,
          prepared>>

-----------------------------------------------------------------------------
(* Bounds of the model.                                                    *)

\* Calls per behaviour of Spec that change the registry or the storage
\* (calls that leave both as they were are not counted).
MaxSteps == 4
\* Block numbers of logs and cursors are 1..MaxBlock, of uncles 0..MaxBlock.
MaxBlock == 2
\* Log indices are 0..MaxLogIndex.
MaxLogIndex == 0
\* Elements of one update batch (cursor updates plus logs) and of one
\* remove batch.
MaxBatch == 2
\* Nodes of the kind trees of one descriptor of SpecSchema.
MaxNodes == 5
\* Sizes of fixed arrays are 1..MaxFixed.
MaxFixed == 2
\* Nodes of the kind trees of one descriptor of SpecStore.
MaxStoreNodes == 4
\* Dynamic arrays of the logs of SpecStore have 0..MaxElems elements.
MaxElems == 2

\* Bits of the integers: the code's u64 arguments and i64 storage are
\* modelled at this width (the model checker's integers have 32 bits).
IntBits == 8

\* i64::MAX at this width.
I64_MAX == 2 ^ (IntBits - 1) - 1
\* A u64 that does not fit an i64.
TooBig == I64_MAX + 1

FIXED_COLUMNS_COUNT == 4

-----------------------------------------------------------------------------
(* Names: strings are sequences of one-character strings.                  *)

UpperChars == <<"A","B","C","D","E","F","G","H","I","J","K","L","M",
                "N","O","P","Q","R","S","T","U","V","W","X","Y","Z">>
LowerChars == <<"a","b","c","d","e","f","g","h","i","j","k","l","m",
                "n","o","p","q","r","s","t","u","v","w","x","y","z">>
DigitChars == <<"0","1","2","3","4","5","6","7","8","9">>

Range(s) == { s[i] : i \in 1..Len(s) }

is_ascii_alphabetic(c) == c \in Range(UpperChars) \cup Range(LowerChars)
is_ascii_alphanumeric(c) == is_ascii_alphabetic(c) \/ c \in Range(DigitChars)

\* char::to_ascii_lowercase
to_ascii_lowercase_char(c) ==
    IF c \in Range(UpperChars)
    THEN LowerChars[CHOOSE i \in 1..26 : UpperChars[i] = c]
    ELSE c

\* str::to_ascii_lowercase
to_ascii_lowercase(s) == [i \in 1..Len(s) |-> to_ascii_lowercase_char(s[i])]

\* keywords::SQLITE_KEYWORDS (the list itself is not among the sources;
\* these are SQLite keywords).
SQLITE_KEYWORDS ==
    { <<"a","s">>, <<"b","y">>, <<"i","f">>, <<"i","n">>, <<"i","s">>,
      <<"n","o">>, <<"o","f">>, <<"o","n">>, <<"o","r">>, <<"t","o">>,
      <<"k","e","y">>, <<"s","e","t">>, <<"r","o","w">>, <<"e","n","d">> }

\* {j} in format!/write!: the decimal digits of j.
RECURSIVE Decimal(_)
Decimal(j) ==
    IF j < 10 THEN <<DigitChars[j + 1]>>
    ELSE Decimal(j \div 10) \o <<DigitChars[(j % 10) + 1]>>

IsSanitizedChar(c) == is_ascii_alphanumeric(c) \/ c = "_"

\* SqliteInner::sanitize_name
sanitize_name(name) ==
    LET filtered == SelectSeq(name, IsSanitizedChar)
        result == IF filtered = <<>> \/ ~is_ascii_alphabetic(filtered[1])
                  THEN <<"_">> \o filtered
                  ELSE filtered
        lowercase == to_ascii_lowercase(result)
    IN IF lowercase \in SQLITE_KEYWORDS THEN Append(result, "_") ELSE result

-----------------------------------------------------------------------------
(* Kinds (solabi::value::ValueKind) and their traversal.                   *)

KBool == [tag |-> "Bool", n |-> 0, sub |-> <<>>]
KBytes == [tag |-> "Bytes", n |-> 0, sub |-> <<>>]
KTuple(ks) == [tag |-> "Tuple", n |-> 0, sub |-> ks]
KFixedArray(n, k) == [tag |-> "FixedArray", n |-> n, sub |-> <<k>>]
KArray(k) == [tag |-> "Array", n |-> 0, sub |-> <<k>>]

\* event_visitor::VisitKind
VisitKindValue(kind) == [t |-> "Value", kind |-> kind.tag]
VisitKindArrayStart == [t |-> "ArrayStart", kind |-> "none"]
VisitKindArrayEnd == [t |-> "ArrayEnd", kind |-> "none"]

RECURSIVE ConcatAll(_)
ConcatAll(ss) == IF ss = <<>> THEN <<>> ELSE Head(ss) \o ConcatAll(Tail(ss))

\* event_visitor::visit_kind: the depth-first sequence of events the visitor
\* is called with.  Tuples and fixed arrays emit only their leaves (a fixed
\* array those of its element, once per position); a dynamic array brackets
\* its element's events with ArrayStart and ArrayEnd.
RECURSIVE visit_kind(_)
visit_kind(kind) ==
    CASE kind.tag = "Tuple" ->
            ConcatAll([i \in 1..Len(kind.sub) |-> visit_kind(kind.sub[i])])
      [] kind.tag = "FixedArray" ->
            ConcatAll([i \in 1..kind.n |-> visit_kind(kind.sub[1])])
      [] kind.tag = "Array" ->
            <<VisitKindArrayStart>> \o visit_kind(kind.sub[1])
                \o <<VisitKindArrayEnd>>
      [] OTHER -> <<VisitKindValue(kind)>>

Max(a, b) == IF a >= b THEN a ELSE b

\* The visitor closure of has_nested_dynamic_arrays, folded over the events:
\* st = [level, max_level].  (The next state and the remaining events are
\* bound as members of one-element sets, so that each is evaluated once.)
RECURSIVE NestingFold(_, _)
NestingFold(st, visits) ==
    IF visits = <<>> THEN st
    ELSE LET v == Head(visits)
             st1 == CASE v.t = "ArrayStart" ->
                            [level |-> st.level + 1,
                             max_level |-> Max(st.max_level, st.level + 1)]
                      [] v.t = "ArrayEnd" ->
                            [st EXCEPT !.level = st.level - 1]
                      [] OTHER -> st
         IN CHOOSE r \in { NestingFold(st2, rest) :
                                st2 \in {st1}, rest \in {Tail(visits)} } : TRUE

\* A bug has_nested_dynamic_arrays could have: the wrong threshold.
has_nested_dynamic_arrays_threshold(value) ==
    NestingFold([level |-> 0, max_level |-> 0], visit_kind(value)).max_level > 2

has_nested_dynamic_arrays(value) ==
    NestingFold([level |-> 0, max_level |-> 0], visit_kind(value)).max_level > 1

\* The match of map_value's visitor on a leaf kind.
SqlTypeOf(tag) == IF tag = "Bool" THEN "Integer" ELSE "Blob"

\* A bug map_value could have: ArrayEnd does not go back to table 0.
MapValueVisitNoArrayEnd(st, v) ==
    CASE v.t = "ArrayStart" ->
            [tables |-> Append(st.tables, <<>>),
             table_index |-> Len(st.tables)]
      [] v.t = "ArrayEnd" -> st
      [] OTHER ->
            [st EXCEPT !.tables[st.table_index + 1] =
                Append(@, SqlTypeOf(v.kind))]

\* The visitor closure of map_value, called with event v in the state
\* st = [tables, table_index] (table_index is 0-based as in the code).
MapValueVisit(st, v) ==
    CASE v.t = "ArrayStart" ->
            [tables |-> Append(st.tables, <<>>),
             table_index |-> Len(st.tables)]
      [] v.t = "ArrayEnd" -> [st EXCEPT !.table_index = 0]
      [] OTHER ->
            [st EXCEPT !.tables[st.table_index + 1] =
                Append(@, SqlTypeOf(v.kind))]

RECURSIVE MapValueFold(_, _)
MapValueFold(st, visits) ==
    IF visits = <<>> THEN st
    ELSE CHOOSE r \in { MapValueFold(st1, rest) :
                            st1 \in {MapValueVisit(st, Head(visits))},
                            rest \in {Tail(visits)} } : TRUE

map_value(tbls, value) ==
    MapValueFold([tables |-> tbls, table_index |-> 0], visit_kind(value)).tables

RECURSIVE MapValues(_, _)
MapValues(tbls, kinds) ==
    IF kinds = <<>> THEN tbls
    ELSE MapValues(map_value(tbls, Head(kinds)), Tail(kinds))

FieldKinds(event) == [i \in 1..Len(event.inputs) |-> event.inputs[i].kind]

\* event_to_tables: Err when a field has nested dynamic arrays, else the
\* tables, each the sequence of its columns' SQL types.
event_to_tables(event) ==
    IF \E i \in 1..Len(event.inputs) :
            has_nested_dynamic_arrays(event.inputs[i].kind)
    THEN [ok |-> FALSE, tables |-> <<>>]
    ELSE [ok |-> TRUE, tables |-> MapValues(<< <<>> >>, FieldKinds(event))]

-----------------------------------------------------------------------------
(* Values (solabi::value::Value) and their traversal.                      *)

VBool(b) == [tag |-> "Bool", b |-> b, bytes |-> <<>>, elem |-> KBool,
             sub |-> <<>>]
VBytes(bs) == [tag |-> "Bytes", b |-> FALSE, bytes |-> bs, elem |-> KBool,
               sub |-> <<>>]
VTuple(vs) == [tag |-> "Tuple", b |-> FALSE, bytes |-> <<>>, elem |-> KBool,
               sub |-> vs]
VFixedArray(k, vs) == [tag |-> "FixedArray", b |-> FALSE, bytes |-> <<>>,
                       elem |-> k, sub |-> vs]
VArray(k, vs) == [tag |-> "Array", b |-> FALSE, bytes |-> <<>>, elem |-> k,
                  sub |-> vs]

\* Value::kind
RECURSIVE value_kind(_)
value_kind(value) ==
    CASE value.tag = "Tuple" ->
            KTuple([i \in 1..Len(value.sub) |-> value_kind(value.sub[i])])
      [] value.tag = "FixedArray" -> KFixedArray(Len(value.sub), value.elem)
      [] value.tag = "Array" -> KArray(value.elem)
      [] value.tag = "Bool" -> KBool
      [] OTHER -> KBytes

\* event_visitor::VisitValue
VisitValueValue(value) == [t |-> "Value", len |-> 0, value |-> value]
VisitValueArrayStart(len) == [t |-> "ArrayStart", len |-> len,
                              value |-> VBool(FALSE)]
VisitValueArrayEnd == [t |-> "ArrayEnd", len |-> 0, value |-> VBool(FALSE)]

\* event_visitor::visit_value: the same traversal as visit_kind, over a
\* value; ArrayStart carries the number of elements.
RECURSIVE visit_value(_)
visit_value(value) ==
    CASE value.tag \in {"Tuple", "FixedArray"} ->
            ConcatAll([i \in 1..Len(value.sub) |-> visit_value(value.sub[i])])
      [] value.tag = "Array" ->
            <<VisitValueArrayStart(Len(value.sub))>>
                \o ConcatAll([i \in 1..Len(value.sub) |->
                                visit_value(value.sub[i])])
                \o <<VisitValueArrayEnd>>
      [] OTHER -> <<VisitValueValue(value)>>

-----------------------------------------------------------------------------
(* The storage engine: SQLite tables inside one transaction.               *)

Empty == [x \in {} |-> x]

Put(f, k, v) == (k :> v) @@ f

SqlInteger(i) == [type |-> "Integer", int |-> i, blob |-> <<>>]
SqlBlob(bs) == [type |-> "Blob", int |-> 0, blob |-> bs]

block_number_ == <<"b","l","o","c","k","_","n","u","m","b","e","r">>
log_index_ == <<"l","o","g","_","i","n","d","e","x">>
transaction_index_ ==
    <<"t","r","a","n","s","a","c","t","i","o","n","_","i","n","d","e","x">>
address_ == <<"a","d","d","r","e","s","s">>
array_index_ == <<"a","r","r","a","y","_","i","n","d","e","x">>

\* FIXED_COLUMNS, and ARRAY_COLUMN for the array tables.
FixedColumnNames(is_array) ==
    <<block_number_, log_index_, transaction_index_, address_>>
        \o (IF is_array THEN <<array_index_>> ELSE <<>>)

\* "{name}_{i}" as SQLite resolves it: table names are matched without
\* regard to ASCII case.
TableName(name, i) == name \o <<"_">> \o Decimal(i)
TableKey(table_name) == to_ascii_lowercase(table_name)

TableExists(tbls, table_name) == TableKey(table_name) \in DOMAIN tbls

\* Number of columns of a stored table.
StoredColumnCount(t) ==
    FIXED_COLUMNS_COUNT + (IF t.is_array THEN 1 ELSE 0) + Len(t.cols)

\* CREATE TABLE IF NOT EXISTS ... STRICT: nothing when the table exists; an
\* error when two columns have the same name (column names too are matched
\* without regard to case).
CreateTable(tbls, table_name, is_array, cols) ==
    IF TableExists(tbls, table_name) THEN [ok |-> TRUE, tables |-> tbls]
    ELSE LET names == FixedColumnNames(is_array)
                        \o [j \in 1..Len(cols) |->
                                to_ascii_lowercase(cols[j].name)]
         IN IF \E a, b \in 1..Len(names) : a < b /\ names[a] = names[b]
            THEN [ok |-> FALSE, tables |-> tbls]
            ELSE [ok |-> TRUE,
                  tables |-> Put(tbls, TableKey(table_name),
                                 [cols |-> cols, is_array |-> is_array,
                                  rows |-> {}])]

\* prepare_cached of "INSERT INTO t VALUES(?1, ..., ?n)": the table must
\* exist and have exactly n columns.
InsertPrepares(tbls, statement) ==
    /\ TableExists(tbls, statement.table)
    /\ StoredColumnCount(tbls[TableKey(statement.table)]) = statement.params

\* prepare_cached of "DELETE FROM t WHERE block_number >= ?1".
RemovePrepares(tbls, table_name) == TableExists(tbls, table_name)

SamePrimaryKey(t, r1, r2) ==
    /\ r1.block_number = r2.block_number
    /\ r1.log_index = r2.log_index
    /\ (t.is_array => r1.array_index = r2.array_index)

\* Executing an INSERT on a STRICT table with PRIMARY_KEY / PRIMARY_KEY_ARRAY:
\* an error when a cell's type is not its column's, or the key is taken.
InsertRow(tbls, statement, row) ==
    LET key == TableKey(statement.table)
        t == tbls[key]
    IN IF \/ ~InsertPrepares(tbls, statement)
          \/ \E j \in 1..Len(t.cols) : row.cells[j].type # t.cols[j].type
          \/ \E r \in t.rows : SamePrimaryKey(t, r, row)
       THEN [ok |-> FALSE, tables |-> tbls]
       ELSE [ok |-> TRUE,
             tables |-> [tbls EXCEPT ![key].rows = @ \cup {row}]]

\* Executing "DELETE FROM t WHERE block_number >= ?1".
DeleteFrom(tbls, table_name, block) ==
    [tbls EXCEPT ![TableKey(table_name)].rows =
        { r \in @ : ~(r.block_number >= block) }]

-----------------------------------------------------------------------------
(* SqliteInner: the operations, each on the registry ev and on the state   *)
(* db = [tables, event_block] the enclosing transaction sees.  A result    *)
(* res is "ok" (Ok), "err" (Err) or "panic" (the call unwinds); db is what *)
(* the transaction has written when the operation returns.                 *)

Ok(db) == [res |-> "ok", db |-> db]
Err(db) == [res |-> "err", db |-> db]
Panic(db) == [res |-> "panic", db |-> db]

\* u64 -> i64 try_into / i64::try_from
FitsI64(n) == n <= I64_MAX

\* SqliteInner::event_block: GET_EVENT_BLOCK, then i64 -> u64.
event_block_of(db, name) ==
    LET n == sanitize_name(name)
    IN IF n \notin DOMAIN db.event_block
       THEN [res |-> "err", indexed |-> 0, finalized |-> 0]
       ELSE LET block == db.event_block[n]
            IN IF block.indexed < 0 \/ block.finalized < 0
               THEN [res |-> "err", indexed |-> 0, finalized |-> 0]
               ELSE [res |-> "ok", indexed |-> block.indexed,
                     finalized |-> block.finalized]

\* A bug SET_EVENT_BLOCK could have: a cursor that only ever grows.
SetEventBlockMax(eb, name, indexed, finalized) ==
    [eb EXCEPT ![name] = [indexed |-> Max(@.indexed, indexed),
                          finalized |-> Max(@.finalized, finalized)]]

\* SET_EVENT_BLOCK: UPDATE event_block SET indexed = ?2, finalized = ?3
\* WHERE event = ?1, on a row that exists.
SetEventBlock(eb, name, indexed, finalized) ==
    [eb EXCEPT ![name] = [indexed |-> indexed, finalized |-> finalized]]

\* SqliteInner::set_event_blocks: SET_EVENT_BLOCK for each cursor update, in
\* order; rows is the number of rows the UPDATE changed.
RECURSIVE set_event_blocks(_, _, _)
set_event_blocks(ev, db, blocks) ==
    IF blocks = <<>> THEN Ok(db)
    ELSE LET block == Head(blocks)
             name == sanitize_name(block.event)
             rows == IF name \in DOMAIN db.event_block THEN 1 ELSE 0
         IN IF name \notin DOMAIN ev THEN Err(db)
            ELSE IF ~FitsI64(block.indexed) THEN Err(db)
            ELSE IF ~FitsI64(block.finalized) THEN Err(db)
            ELSE IF rows # 1 THEN Err(db)
            ELSE set_event_blocks(ev,
                    [db EXCEPT !.event_block =
                        SetEventBlock(@, name, block.indexed,
                                      block.finalized)],
                    Tail(blocks))

\* The field-name loop of prepare_event: the sanitized field names, and
\* whether the HashSet meets one twice.
ColumnNames(event) ==
    [i \in 1..Len(event.inputs) |-> sanitize_name(event.inputs[i].name)]

HasDuplicateFieldName(event) ==
    LET names == ColumnNames(event)
    IN \E a, b \in 1..Len(names) : a < b /\ names[a] = names[b]

\* The columns of table i (0-based) in its CREATE TABLE statement: the field
\* names when this is table 0 and it has as many columns as the event has
\* fields, else c0, c1, ...
TableColumns(i, table, column_names) ==
    [j \in 1..Len(table) |->
        [name |-> IF i = 0 /\ Len(column_names) = Len(table)
                  THEN column_names[j]
                  ELSE <<"c">> \o Decimal(j - 1),
         type |-> table[j]]]

\* The CREATE TABLE loop of prepare_event, from table i (0-based) on.
RECURSIVE CreateTables(_, _, _, _, _)
CreateTables(tbls, name, tbl_types, column_names, i) ==
    IF i >= Len(tbl_types) THEN [ok |-> TRUE, tables |-> tbls]
    ELSE LET c == CreateTable(tbls, TableName(name, i), i # 0,
                    TableColumns(i, tbl_types[i + 1], column_names))
         IN IF ~c.ok THEN c
            ELSE CreateTables(c.tables, name, tbl_types, column_names, i + 1)

\* NEW_EVENT_BLOCK: INSERT ... VALUES(?1, 0, 0) ON CONFLICT(event) DO NOTHING
NewEventBlock(eb, name) ==
    IF name \in DOMAIN eb THEN eb
    ELSE Put(eb, name, [indexed |-> 0, finalized |-> 0])

InsertStatements(name, tbl_types) ==
    [k \in 1..Len(tbl_types) |->
        [table |-> TableName(name, k - 1),
         fields |-> Len(tbl_types[k]),
         params |-> Len(tbl_types[k]) + FIXED_COLUMNS_COUNT
                        + (IF k - 1 # 0 THEN 1 ELSE 0)]]

RemoveStatements(name, tbl_types) ==
    [k \in 1..Len(tbl_types) |-> TableName(name, k - 1)]

\* A bug prepare_event could have: any descriptor passes for a known name.
DescriptorDiffersNever(event, existing) == FALSE

\* event != &existing.descriptor
DescriptorDiffers(event, existing) == event # existing.descriptor

\* SqliteInner::prepare_event; the result also carries the registry.
prepare_event(ev, db, raw_name, event) ==
    LET name == sanitize_name(raw_name)
        fail(d) == [res |-> "err", events |-> ev, db |-> d]
    IN IF HasDuplicateFieldName(event) THEN fail(db)
       ELSE IF name \in DOMAIN ev
       THEN IF DescriptorDiffers(event, ev[name]) THEN fail(db)
            ELSE [res |-> "ok", events |-> ev, db |-> db]
       ELSE LET t == event_to_tables(event)
            IN IF ~t.ok THEN fail(db)
               ELSE
    LET c == CreateTables(db.tables, name, t.tables, ColumnNames(event), 0)
        db1 == [db EXCEPT !.tables = c.tables]
        db2 == [db1 EXCEPT !.event_block = NewEventBlock(@, name)]
        insert_statements == InsertStatements(name, t.tables)
        remove_statements == RemoveStatements(name, t.tables)
    IN IF ~c.ok THEN fail(db1)
       ELSE IF \E k \in 1..Len(insert_statements) :
                    ~InsertPrepares(db2.tables, insert_statements[k])
       THEN fail(db2)
       ELSE IF \E k \in 1..Len(remove_statements) :
                    ~RemovePrepares(db2.tables, remove_statements[k])
       THEN fail(db2)
       ELSE [res |-> "ok",
             events |-> Put(ev, name,
                            [descriptor |-> event,
                             insert_statements |-> insert_statements,
                             remove_statements |-> remove_statements]),
             db |-> db2]

\* The leaf arms of store_event's visitor: the SQL value of an ABI value.
SqlValueOf(value) ==
    IF value.tag = "Bool" THEN SqlInteger(IF value.b THEN 1 ELSE 0)
    ELSE SqlBlob(value.bytes)

\* A bug store_event's visitor could have: ArrayEnd leaves in_array set.
StoreVisitNoArrayEnd(st, v) ==
    LET target == IF st.in_array THEN Len(st.sql_values) ELSE 1
    IN CASE v.t = "ArrayStart" ->
              [sql_values |-> Append(st.sql_values,
                                     [count |-> v.len, values |-> <<>>]),
               in_array |-> TRUE]
         [] v.t = "ArrayEnd" -> st
         [] OTHER ->
              [st EXCEPT !.sql_values[target].values =
                            Append(@, SqlValueOf(v.value))]

\* store_event's visitor closure, called with event v in the state
\* st = [sql_values, in_array]; an entry of sql_values is [count, values],
\* count = -1 standing for None.
StoreVisit(st, v) ==
    LET target == IF st.in_array THEN Len(st.sql_values) ELSE 1
    IN CASE v.t = "ArrayStart" ->
              [sql_values |-> Append(st.sql_values,
                                     [count |-> v.len, values |-> <<>>]),
               in_array |-> TRUE]
         [] v.t = "ArrayEnd" -> [st EXCEPT !.in_array = FALSE]
         [] OTHER ->
              [st EXCEPT !.sql_values[target].values =
                            Append(@, SqlValueOf(v.value))]

\* The visitor folded over the events of the fields.
RECURSIVE StoreFold(_, _)
StoreFold(st, visits) ==
    IF visits = <<>> THEN st
    ELSE CHOOSE r \in { StoreFold(st1, rest) :
                           st1 \in {StoreVisit(st, Head(visits))},
                           rest \in {Tail(visits)} } : TRUE

SqlValues(fields) ==
    StoreFold([sql_values |-> << [count |-> -1, values |-> <<>>] >>,
               in_array |-> FALSE],
              ConcatAll([i \in 1..Len(fields) |-> visit_value(fields[i])])
             ).sql_values

\* A bug the parameters of an insert could have: array_index from 1.
LogRowFromOne(statement, log, entry, i) ==
    [block_number |-> log.block_number,
     log_index |-> log.log_index,
     transaction_index |-> log.transaction_index,
     address |-> log.address,
     array_index |-> IF entry.count # -1 THEN i + 1 ELSE -1,
     cells |-> SubSeq(entry.values, i * statement.fields + 1,
                      (i + 1) * statement.fields)]

\* The parameters of the i-th insert into one table: the fixed columns of
\* the log, array_index = i for an array table, and the i-th chunk of the
\* table's values.
LogRow(statement, log, entry, i) ==
    [block_number |-> log.block_number,
     log_index |-> log.log_index,
     transaction_index |-> log.transaction_index,
     address |-> log.address,
     array_index |-> IF entry.count # -1 THEN i ELSE -1,
     cells |-> SubSeq(entry.values, i * statement.fields + 1,
                      (i + 1) * statement.fields)]

\* The inner loop of store_event: the rows i.. of one table.
RECURSIVE InsertRows(_, _, _, _, _, _)
InsertRows(db, statement, log, entry, count, i) ==
    IF i >= count THEN Ok(db)
    ELSE LET is_array == entry.count # -1
             row == LogRow(statement, log, entry, i)
             nparams == FIXED_COLUMNS_COUNT + (IF is_array THEN 1 ELSE 0)
                            + statement.fields
             ins == InsertRow(db.tables, statement, row)
         IN IF nparams # statement.params \/ ~ins.ok THEN Err(db)
            ELSE InsertRows([db EXCEPT !.tables = ins.tables], statement,
                            log, entry, count, i + 1)

\* The outer loop of store_event over insert_statements.iter().zip(sql_values),
\* from pair k on.
RECURSIVE InsertTables(_, _, _, _, _)
InsertTables(db, statements, sql_values, log, k) ==
    IF k > Len(statements) \/ k > Len(sql_values) THEN Ok(db)
    ELSE LET statement == statements[k]
             entry == sql_values[k]
             array_element_count == IF entry.count = -1 THEN 1 ELSE entry.count
         IN IF ~InsertPrepares(db.tables, statement) THEN Err(db)
            ELSE IF statement.fields * array_element_count # Len(entry.values)
            THEN Panic(db)
            ELSE LET r == InsertRows(db, statement, log, entry,
                                     array_element_count, 0)
                 IN IF r.res # "ok" THEN r
                    ELSE InsertTables(r.db, statements, sql_values, log, k + 1)

\* A bug store_event could have: the fields are not checked against the
\* descriptor.
store_event_unchecked(ev, db, log) ==
    LET name == sanitize_name(log.event)
    IN IF name \notin DOMAIN ev THEN Err(db)
       ELSE IF \/ ~FitsI64(log.block_number)
               \/ ~FitsI64(log.log_index)
               \/ ~FitsI64(log.transaction_index)
       THEN Panic(db)
       ELSE InsertTables(db, ev[name].insert_statements,
                         SqlValues(log.fields), log, 1)

\* SqliteInner::store_event
store_event(ev, db, log) ==
    LET name == sanitize_name(log.event)
    IN IF name \notin DOMAIN ev THEN Err(db)
       ELSE LET event == ev[name]
                expected_len == Len(event.descriptor.inputs)
            IN IF Len(log.fields) # expected_len THEN Err(db)
               ELSE IF \E i \in 1..expected_len :
                        value_kind(log.fields[i])
                            # event.descriptor.inputs[i].kind
               THEN Err(db)
               ELSE IF \/ ~FitsI64(log.block_number)
                       \/ ~FitsI64(log.log_index)
                       \/ ~FitsI64(log.transaction_index)
               THEN Panic(db)
               ELSE InsertTables(db, event.insert_statements,
                                 SqlValues(log.fields), log, 1)

RECURSIVE StoreEvents(_, _, _)
StoreEvents(ev, db, logs) ==
    IF logs = <<>> THEN Ok(db)
    ELSE LET r == store_event(ev, db, Head(logs))
         IN IF r.res # "ok" THEN r ELSE StoreEvents(ev, r.db, Tail(logs))

\* SqliteInner::update
update(ev, db, blocks, logs) ==
    LET b == set_event_blocks(ev, db, blocks)
    IN IF b.res # "ok" THEN b ELSE StoreEvents(ev, b.db, logs)

\* SET_INDEXED_BLOCK: UPDATE event_block SET indexed = ?2 WHERE event = ?1
SetIndexedBlock(eb, name, parent_block) ==
    IF name \in DOMAIN eb THEN [eb EXCEPT ![name].indexed = parent_block]
    ELSE eb

\* The loop of remove over the remove statements of one prepared event.
RECURSIVE RemoveTables(_, _, _, _)
RemoveTables(db, remove_statements, name, block) ==
    IF remove_statements = <<>> THEN Ok(db)
    ELSE LET statement == Head(remove_statements)
         IN IF ~RemovePrepares(db.tables, statement) THEN Err(db)
            ELSE RemoveTables(
                    [tables |-> DeleteFrom(db.tables, statement, block),
                     event_block |->
                        SetIndexedBlock(db.event_block, name, block - 1)],
                    Tail(remove_statements), name, block)

\* A bug remove could have: block 0 is not refused.
BlockZeroUncledNever(uncle) == FALSE

\* uncle.number == 0
BlockZeroUncled(uncle) == uncle.number = 0

\* SqliteInner::remove
RECURSIVE remove(_, _, _)
remove(ev, db, uncles) ==
    IF uncles = <<>> THEN Ok(db)
    ELSE LET uncle == Head(uncles)
             name == sanitize_name(uncle.event)
         IN IF BlockZeroUncled(uncle) THEN Err(db)
            ELSE IF ~FitsI64(uncle.number) THEN Err(db)
            ELSE IF name \notin DOMAIN ev THEN Err(db)
            ELSE LET r == RemoveTables(db, ev[name].remove_statements, name,
                                       uncle.number)
                 IN IF r.res # "ok" THEN r ELSE remove(ev, r.db, Tail(uncles))

\* A bug the transactions could have: what was written before an error stays.
TransactionNoRollback(before, r, commit_ok) ==
    IF r.res = "ok" /\ commit_ok THEN [res |-> "ok", db |-> r.db]
    ELSE [res |-> IF r.res = "ok" THEN "err" ELSE r.res, db |-> r.db]

\* A transaction of impl Database for Sqlite (connection.transaction(), the
\* inner call with `?`, transaction.commit()): what is committed and what the
\* caller gets.  An Err or a panic drops the transaction, which rolls it
\* back; so does a COMMIT that fails.
Transaction(before, r, commit_ok) ==
    IF r.res = "ok" /\ commit_ok THEN [res |-> "ok", db |-> r.db]
    ELSE [res |-> IF r.res = "ok" THEN "err" ELSE r.res, db |-> before]

\* The outcomes of COMMIT: it can fail (SQLITE_BUSY, SQLITE_FULL, an I/O
\* error) only when the transaction has something to write.
CommitOutcomes(before, r) ==
    IF r.res = "ok" /\ r.db # before THEN {TRUE, FALSE} ELSE {TRUE}

-----------------------------------------------------------------------------
(* The arguments the calls are made with.                                  *)

Field(name, kind) == [name |-> name, kind |-> kind]
Descriptor(inputs) == [inputs |-> inputs]

\* One Bool field.
DBool == Descriptor(<<Field(<<"a">>, KBool)>>)
\* A Bool field and a dynamic array of Bool: two tables.
DArray == Descriptor(<<Field(<<"a">>, KBool), Field(<<"b">>, KArray(KBool))>>)
\* A dynamic array nested in a dynamic array.
DNested == Descriptor(<<Field(<<"a">>, KArray(KArray(KBool)))>>)
\* Two field names with the same sanitized form.
DDuplicate ==
    Descriptor(<<Field(<<"a">>, KBool), Field(<<"a", "!">>, KBool)>>)

Descriptors == {DBool, DArray, DNested, DDuplicate}

\* Field names that meet SQLite's rules for column names: the name of a
\* fixed column, in this case or another; the name of the array column; a
\* keyword; two names that differ only in case.
FieldNameLists ==
    { << address_ >>, << block_number_ >>,
      << <<"A","d","d","r","e","s","s">> >>,
      << array_index_ >>,
      << <<"a","s">> >>,
      << <<"a">>, <<"A">> >> }

\* Descriptors of Bool fields with these names, and one of a dynamic array
\* named as the array column.
NamedDescriptors ==
    { Descriptor([j \in 1..Len(ns) |-> Field(ns[j], KBool)]) :
        ns \in FieldNameLists }
    \cup { Descriptor(<<Field(array_index_, KArray(KBool))>>) }

\* A caller uses two event names: "e" and "E", which differ only in case, or
\* "e" and "f".  It may also write "e" as "e!", which is sanitized to "e".
NamePairs == { { <<"e">>, <<"E">> }, { <<"e">>, <<"f">> } }
AliasNames == { <<"e", "!">> }

\* database::EventBlock
CursorUpdates(ns) ==
    { [event |-> n, indexed |-> i, finalized |-> i - 1] :
        n \in ns, i \in 1..MaxBlock }
    \cup { [event |-> n, indexed |-> TooBig, finalized |-> 0] : n \in ns }

\* The field values of a log: right for DBool, and right for DArray.
FieldChoices ==
    { <<VBool(TRUE)>>,
      <<VBool(FALSE), VArray(KBool, <<VBool(TRUE), VBool(FALSE)>>)>> }

Address == <<4>>

\* database::Log
Logs(ns) ==
    { [event |-> n, block_number |-> b, log_index |-> l,
       transaction_index |-> 0, address |-> Address, fields |-> fs] :
        n \in ns, b \in 1..MaxBlock, l \in 0..MaxLogIndex,
        fs \in FieldChoices }

\* database::Uncle
Uncles(ns) ==
    { [event |-> n, number |-> b] : n \in ns, b \in (0..MaxBlock) \cup {TooBig} }

SeqsUpTo(S, n) == UNION { [1..k -> S] : k \in 0..n }

-----------------------------------------------------------------------------
(* The state machine: impl Database for Sqlite.                            *)

NoDescriptor == Descriptor(<<>>)

\* last: the call (op and its arguments), what the caller got (res; indexed
\* and finalized from event_block; the tables from event_to_tables), what the
\* inner operation returned before the commit (inner), and whether the
\* transaction had written anything by then (wrote).
NoCall == [op |-> "none", name |-> <<>>, event |-> NoDescriptor,
           blocks |-> <<>>, logs |-> <<>>, uncles |-> <<>>,
           res |-> "none", inner |-> "none", wrote |-> FALSE,
           indexed |-> 0, finalized |-> 0, tables |-> <<>>]

NoPre == [events |-> Empty, tables |-> Empty, event_block |-> Empty,
          prepared |-> {}]

Snapshot == [events |-> events, tables |-> tables,
             event_block |-> event_block, prepared |-> prepared]

Storage == [tables |-> tables, event_block |-> event_block]

\* Sqlite::new on a fresh store: CREATE_EVENT_BLOCK_TABLE, an empty registry.
Init ==
    /\ events = Empty
    /\ tables = Empty
    /\ event_block = Empty
    /\ pc = "idle"
    /\ last = NoCall
    /\ pre = NoPre
    /\ steps = 0
    /\ name_pair \in NamePairs
    /\ prepared = {}

\* A call returns to the caller with registry ev and committed storage db.
Returns(ev, db, call) ==
    /\ events' = ev
    /\ tables' = db.tables
    /\ event_block' = db.event_block
    /\ last' = call
    /\ pc' = "returned"
    /\ pre' = Snapshot
    /\ steps' = IF ev = events /\ db = Storage THEN steps ELSE steps + 1
    /\ prepared' = IF call.op = "prepare_event" /\ call.res = "ok"
                   THEN prepared \cup {sanitize_name(call.name)}
                   ELSE prepared
    /\ UNCHANGED name_pair

\* Sqlite::prepare_event(name, event)
DoPrepareEvent(name, event) ==
    \E r \in {prepare_event(events, Storage, name, event)} :
    \E commit_ok \in CommitOutcomes(Storage, r) :
    \E o \in {Transaction(Storage, r, commit_ok)} :
        Returns(r.events, o.db,
                [NoCall EXCEPT !.op = "prepare_event", !.name = name,
                               !.event = event, !.res = o.res,
                               !.inner = r.res, !.wrote = (r.db # Storage)])

PrepareEvent ==
    /\ pc = "idle" /\ steps < MaxSteps
    /\ \E name \in name_pair \cup AliasNames, event \in Descriptors :
            DoPrepareEvent(name, event)

\* Sqlite::event_block(name)
EventBlock ==
    /\ pc = "idle" /\ steps < MaxSteps
    /\ \E name \in name_pair \cup AliasNames :
       \E r \in {event_block_of(Storage, name)} :
            Returns(events, Storage,
                    [NoCall EXCEPT !.op = "event_block", !.name = name,
                                   !.res = r.res, !.inner = r.res,
                                   !.indexed = r.indexed,
                                   !.finalized = r.finalized])

\* Sqlite::update(blocks, logs), with at most MaxBatch cursor updates and
\* logs in all
Update ==
    /\ pc = "idle" /\ steps < MaxSteps
    /\ \E k \in 0..MaxBatch : \E j \in 0..(MaxBatch - k) :
       \E blocks \in [1..k -> CursorUpdates(name_pair)] :
       \E logs \in [1..j -> Logs(name_pair)] :
       \E r \in {update(events, Storage, blocks, logs)} :
       \E commit_ok \in CommitOutcomes(Storage, r) :
       \E o \in {Transaction(Storage, r, commit_ok)} :
            Returns(events, o.db,
                    [NoCall EXCEPT !.op = "update", !.blocks = blocks,
                                   !.logs = logs, !.res = o.res,
                                   !.inner = r.res,
                                   !.wrote = (r.db # Storage)])

\* Sqlite::remove(uncles)
Remove ==
    /\ pc = "idle" /\ steps < MaxSteps
    /\ \E uncles \in SeqsUpTo(Uncles(name_pair), MaxBatch) :
       \E r \in {remove(events, Storage, uncles)} :
       \E commit_ok \in CommitOutcomes(Storage, r) :
       \E o \in {Transaction(Storage, r, commit_ok)} :
            Returns(events, o.db,
                    [NoCall EXCEPT !.op = "remove", !.uncles = uncles,
                                   !.res = o.res, !.inner = r.res,
                                   !.wrote = (r.db # Storage)])

\* The caller takes the result and goes on.
Return ==
    /\ pc = "returned"
    /\ pc' = "idle"
    /\ last' = NoCall
    /\ pre' = NoPre
    /\ UNCHANGED <<events, tables, event_block, steps, name_pair, prepared>>

Next == PrepareEvent \/ EventBlock \/ Update \/ Remove \/ Return

Spec == Init /\ [][Next]_vars


-----------------------------------------------------------------------------
\* The schema functions on their own: event_to_tables and prepare_event on
\* an empty store, for every descriptor of a bounded size.

\* With t[m] the kinds of exactly m nodes for m up to Len(t), the kinds of
\* Len(t) + 1 nodes: leaves Bool and Bytes, dynamic arrays, fixed arrays of
\* 1..MaxFixed elements, tuples of one or two members.
NextKinds(t) ==
    IF t = <<>> THEN {KBool, KBytes}
    ELSE { KArray(k) : k \in t[Len(t)] }
         \cup { KFixedArray(m, k) : m \in 1..MaxFixed, k \in t[Len(t)] }
         \cup { KTuple(<<k>>) : k \in t[Len(t)] }
         \cup UNION { { KTuple(<<k1, k2>>) : k1 \in t[a], k2 \in t[Len(t) - a] } :
                      a \in 1..(Len(t) - 1) }

\* The table of the kinds of 1..n nodes, grown from t one size at a time.
RECURSIVE KindsTable(_, _)
KindsTable(t, n) ==
    IF Len(t) >= n THEN t
    ELSE CHOOSE r \in { KindsTable(Append(v, NextKinds(v)), n) : v \in {t} } :
            TRUE

\* event_to_tables(event)
DoEventToTables(event) ==
    \E r \in {event_to_tables(event)} :
        Returns(events, Storage,
                [NoCall EXCEPT !.op = "event_to_tables", !.event = event,
                               !.res = IF r.ok THEN "ok" ELSE "err",
                               !.inner = IF r.ok THEN "ok" ELSE "err",
                               !.tables = r.tables])

\* The call op with the descriptor event: event_to_tables(event), or
\* Sqlite::prepare_event("e", event).
SchemaCall(op, event) ==
    IF op = "event_to_tables" THEN DoEventToTables(event)
    ELSE DoPrepareEvent(<<"e">>, event)

\* The call op for some descriptor of no field, of one field "a" of up to
\* max nodes, of two fields "a" and "b" of up to max nodes together, or of
\* fields of other names.
ForSomeDescriptorUpTo(op, max) ==
    \E t \in { KindsTable(<<>>, max) } :
        \/ SchemaCall(op, Descriptor(<<>>))
        \/ \E n \in 1..max : \E k \in t[n] :
                SchemaCall(op, Descriptor(<<Field(<<"a">>, k)>>))
        \/ \E n \in 2..max : \E a \in 1..(n - 1) :
           \E k1 \in t[a], k2 \in t[n - a] :
                SchemaCall(op, Descriptor(<<Field(<<"a">>, k1),
                                            Field(<<"b">>, k2)>>))
        \/ \E event \in NamedDescriptors : SchemaCall(op, event)

\* The call op for some descriptor of up to MaxNodes nodes.
ForSomeDescriptor(op) == ForSomeDescriptorUpTo(op, MaxNodes)

\* event_to_tables(event), for any descriptor
EventToTables ==
    /\ pc = "idle" /\ events = Empty
    /\ ForSomeDescriptor("event_to_tables")

\* Sqlite::prepare_event("e", event) on the empty store, for any descriptor
PrepareEventSchema ==
    /\ pc = "idle" /\ events = Empty
    /\ ForSomeDescriptor("prepare_event")

NextSchema == EventToTables \/ PrepareEventSchema \/ Return

\* The names play no part here: one pair of them is enough.
InitSchema == Init /\ name_pair = { <<"e">>, <<"f">> }

SpecSchema == InitSchema /\ [][NextSchema]_vars

-----------------------------------------------------------------------------
\* Storing logs: prepare_event on an empty store for every descriptor of up
\* to MaxStoreNodes nodes, then update with one log of any values.

\* The values of a kind, dynamic arrays having up to MaxElems elements, and
\* the sequences of values of a sequence of kinds.
RECURSIVE ValuesOf(_), ValueSeqs(_)
ValueSeqs(ks) ==
    IF ks = <<>> THEN { <<>> }
    ELSE { <<v>> \o vs : v \in ValuesOf(Head(ks)), vs \in ValueSeqs(Tail(ks)) }

ValuesOf(kind) ==
    CASE kind.tag = "Bool" -> { VBool(TRUE), VBool(FALSE) }
      [] kind.tag = "Bytes" -> { VBytes(<<1>>) }
      [] kind.tag = "Tuple" -> { VTuple(vs) : vs \in ValueSeqs(kind.sub) }
      [] kind.tag = "FixedArray" ->
            { VFixedArray(kind.sub[1], vs) :
                vs \in [1..kind.n -> ValuesOf(kind.sub[1])] }
      [] OTHER ->
            { VArray(kind.sub[1], vs) :
                vs \in UNION { [1..m -> ValuesOf(kind.sub[1])] :
                                m \in 0..MaxElems } }

\* Values that are not of the kind: a leaf of another kind, and for a
\* dynamic array of leaves an empty array of the other leaves.
WrongValuesOf(kind) ==
    { IF kind.tag = "Bool" THEN VBytes(<<1>>) ELSE VBool(TRUE) }
    \cup (IF kind.tag = "Array" /\ kind.sub[1].tag \in {"Bool", "Bytes"}
          THEN { VArray(IF kind.sub[1].tag = "Bool" THEN KBytes ELSE KBool,
                        <<>>) }
          ELSE {})

\* Field values that do not fit the kinds ks: one field too few, one too
\* many, or one field of another kind.
WrongFields(ks) ==
    LET right == CHOOSE vs \in ValueSeqs(ks) : TRUE
    IN { Append(right, VBool(TRUE)) }
       \cup (IF ks = <<>> THEN {} ELSE { SubSeq(right, 1, Len(ks) - 1) })
       \cup UNION { { [right EXCEPT ![i] = w] : w \in WrongValuesOf(ks[i]) } :
                    i \in 1..Len(ks) }

\* The block number, log index and transaction index of a log: all in
\* range, or one of them out of the range of an i64.
LogNumbers ==
    { [block_number |-> 1, log_index |-> 0, transaction_index |-> 0],
      [block_number |-> TooBig, log_index |-> 0, transaction_index |-> 0],
      [block_number |-> 1, log_index |-> TooBig, transaction_index |-> 0],
      [block_number |-> 1, log_index |-> 0, transaction_index |-> TooBig] }

\* The cursor updates of the batch: none, or one for "e", in range or not.
StoreCursorUpdates ==
    { <<>>,
      << [event |-> <<"e">>, indexed |-> 1, finalized |-> 0] >>,
      << [event |-> <<"e">>, indexed |-> TooBig, finalized |-> 0] >>,
      << [event |-> <<"e">>, indexed |-> 1, finalized |-> TooBig] >> }

\* Sqlite::prepare_event("e", event) on the empty store, for any descriptor
\* of up to MaxStoreNodes nodes
PrepareEventStore ==
    /\ pc = "idle" /\ events = Empty
    /\ ForSomeDescriptorUpTo("prepare_event", MaxStoreNodes)

\* Sqlite::update(blocks, <<log>>) while no row is stored: a log of the
\* prepared event "e" with any field values, right or wrong, or a log of
\* the event "f" that nobody prepared
UpdateStore ==
    /\ pc = "idle" /\ <<"e">> \in DOMAIN events
    /\ \A t \in DOMAIN tables : tables[t].rows = {}
    /\ \E ks \in { FieldKinds(events[<<"e">>].descriptor) } :
       \E name \in name_pair :
       \E fs \in IF name = <<"e">> THEN ValueSeqs(ks) \cup WrongFields(ks)
                  ELSE { CHOOSE vs \in ValueSeqs(ks) : TRUE } :
       \E nums \in LogNumbers :
       \E blocks \in StoreCursorUpdates :
       \E logs \in { << [event |-> name,
                          block_number |-> nums.block_number,
                          log_index |-> nums.log_index,
                          transaction_index |-> nums.transaction_index,
                          address |-> Address, fields |-> fs] >> } :
       \E r \in {update(events, Storage, blocks, logs)} :
       \E commit_ok \in CommitOutcomes(Storage, r) :
       \E o \in {Transaction(Storage, r, commit_ok)} :
            Returns(events, o.db,
                    [NoCall EXCEPT !.op = "update", !.blocks = blocks,
                                   !.logs = logs, !.res = o.res,
                                   !.inner = r.res,
                                   !.wrote = (r.db # Storage)])

NextStore == PrepareEventStore \/ UpdateStore \/ Return

SpecStore == InitSchema /\ [][NextStore]_vars

-----------------------------------------------------------------------------
\* Properties.  They are stated on the state in which a call has returned:
\* last is the call and its result, pre the registry and storage before it.

Returned(op) == pc = "returned" /\ last.op = op

\* Registry and storage are as they were before the call.
NothingChanged ==
    /\ events = pre.events
    /\ tables = pre.tables
    /\ event_block = pre.event_block

\* Counting on the kind trees themselves, without the traversal.
\* The dynamic arrays written in the kinds ks.
RECURSIVE DynamicArrayOccurrences(_)
DynamicArrayOccurrences(ks) ==
    IF ks = <<>> THEN 0
    ELSE LET k == Head(ks)
         IN (CASE k.tag = "Array" -> 1 + DynamicArrayOccurrences(k.sub)
               [] k.tag \in {"Tuple", "FixedArray"} ->
                    DynamicArrayOccurrences(k.sub)
               [] OTHER -> 0)
            + DynamicArrayOccurrences(Tail(ks))

\* The dynamic arrays of the kinds ks after flattening: one inside a fixed
\* array of n elements counts n times.
RECURSIVE DynamicArrayInstances(_)
DynamicArrayInstances(ks) ==
    IF ks = <<>> THEN 0
    ELSE LET k == Head(ks)
         IN (CASE k.tag = "Array" -> 1 + DynamicArrayInstances(k.sub)
               [] k.tag = "Tuple" -> DynamicArrayInstances(k.sub)
               [] k.tag = "FixedArray" -> k.n * DynamicArrayInstances(k.sub)
               [] OTHER -> 0)
            + DynamicArrayInstances(Tail(ks))

\* The flattened scalar leaves of the kinds ks outside every dynamic array.
RECURSIVE LeavesOutsideArrays(_)
LeavesOutsideArrays(ks) ==
    IF ks = <<>> THEN 0
    ELSE LET k == Head(ks)
         IN (CASE k.tag = "Array" -> 0
               [] k.tag = "Tuple" -> LeavesOutsideArrays(k.sub)
               [] k.tag = "FixedArray" -> k.n * LeavesOutsideArrays(k.sub)
               [] OTHER -> 1)
            + LeavesOutsideArrays(Tail(ks))

\* The sanitized names in the uncles of the last remove, and for such a name
\* the lowest and the last block number uncled.
UncledNames ==
    { sanitize_name(last.uncles[i].event) : i \in 1..Len(last.uncles) }

UnclesOf(s) ==
    { i \in 1..Len(last.uncles) : sanitize_name(last.uncles[i].event) = s }

LowestUncle(s) ==
    CHOOSE n \in { last.uncles[i].number : i \in UnclesOf(s) } :
        \A i \in UnclesOf(s) : n <= last.uncles[i].number

LastUncle(s) ==
    last.uncles[CHOOSE i \in UnclesOf(s) : \A j \in UnclesOf(s) : j <= i].number

\* The sanitized names in the cursor updates of the last update, and for such
\* a name its last cursor update.
CursorNames ==
    { sanitize_name(last.blocks[i].event) : i \in 1..Len(last.blocks) }

LastCursorUpdate(s) ==
    LET is == { i \in 1..Len(last.blocks) :
                    sanitize_name(last.blocks[i].event) = s }
        b == last.blocks[CHOOSE i \in is : \A j \in is : j <= i]
    IN [indexed |-> b.indexed, finalized |-> b.finalized]

\* The tables of the event registered under s: the keys they have in storage.
TablesOf(ev, s) ==
    { TableKey(TableName(s, k - 1)) : k \in 1..Len(ev[s].insert_statements) }

\* C1 as stated: after a successful remove, the rows deleted are exactly the
\* rows of the uncled events' tables from the uncled block on: the rows of
\* the event below that block are still there, and the rows of every other
\* event are unchanged.
C1_RemoveDeletesExactly ==
    Returned("remove") /\ last.res = "ok"
    => \A s \in DOMAIN pre.events : \A key \in TablesOf(pre.events, s) :
            key \in DOMAIN pre.tables
            => /\ key \in DOMAIN tables
               /\ tables[key].rows =
                    IF s \in UncledNames
                    THEN { r \in pre.tables[key].rows :
                                r.block_number < LowestUncle(s) }
                    ELSE pre.tables[key].rows

\* C2 as stated: after a successful remove of (E, N), the cursor of E has
\* indexed = N - 1 and the finalized value it had; the cursors of the other
\* events are unchanged.
C2_RemoveSetsIndexed ==
    Returned("remove") /\ last.res = "ok"
    => /\ \A s \in UncledNames :
            /\ s \in DOMAIN event_block
            /\ s \in DOMAIN pre.event_block
            /\ event_block[s].indexed = LastUncle(s) - 1
            /\ event_block[s].finalized = pre.event_block[s].finalized
       /\ \A s \in DOMAIN pre.event_block \ UncledNames :
            /\ s \in DOMAIN event_block
            /\ event_block[s] = pre.event_block[s]

\* C3: when update returns an error, no cursor value and no row differs from
\* the state before the call, whatever the batch had applied by then.
C3_UpdateAllOrNothing ==
    Returned("update") /\ last.res = "err" => NothingChanged

\* update has failed on its second log after inserting the first.
C3_Witness ==
    /\ Returned("update") /\ last.res = "err"
    /\ last.inner = "err" /\ last.wrote
    /\ Len(last.logs) = 2

\* C4: remove with an uncle of block 0 fails, prepared event or not, and a
\* remove that fails leaves every row and cursor as before the call.
C4_RemoveBlockZeroFails ==
    Returned("remove")
    => /\ (\E i \in 1..Len(last.uncles) : last.uncles[i].number = 0)
            => last.res = "err"
       /\ last.res # "ok" => NothingChanged

\* remove has failed on a second uncle of block 0 after the first uncle had
\* deleted rows that are still there.
C4_Witness ==
    /\ Returned("remove") /\ last.res = "err" /\ last.wrote
    /\ Len(last.uncles) = 2 /\ last.uncles[2].number = 0
    /\ \E key \in DOMAIN tables : \E r \in tables[key].rows :
            r.block_number >= last.uncles[1].number

\* C5: prepare_event for a name already in the registry changes nothing;
\* it succeeds if the descriptor is the registered one and fails otherwise.
C5_ReRegistration ==
    Returned("prepare_event") /\ sanitize_name(last.name) \in DOMAIN pre.events
    => /\ NothingChanged
       /\ last.res = "ok"
            <=> last.event = pre.events[sanitize_name(last.name)].descriptor

\* prepare_event has succeeded again for an event whose cursor has moved.
C5_Witness ==
    /\ Returned("prepare_event") /\ last.res = "ok"
    /\ sanitize_name(last.name) \in DOMAIN pre.events
    /\ sanitize_name(last.name) \in DOMAIN event_block
    /\ event_block[sanitize_name(last.name)].indexed > 0

\* C6 as stated: in every reachable state every event of the registry has
\* all its tables and its cursor row in committed storage.
C6_RegistryInStorage ==
    \A s \in DOMAIN events :
        /\ s \in DOMAIN event_block
        /\ TablesOf(events, s) \subseteq DOMAIN tables

\* C7 as stated: after a successful update with a cursor update for E, the
\* indexed and finalized values of E are each >= what they were before.
C7_CursorMonotone ==
    Returned("update") /\ last.res = "ok"
    => \A s \in CursorNames :
            /\ s \in DOMAIN event_block /\ s \in DOMAIN pre.event_block
            /\ event_block[s].indexed >= pre.event_block[s].indexed
            /\ event_block[s].finalized >= pre.event_block[s].finalized

\* C7, amended: after a successful update with a cursor update for E, the
\* cursor of E is the last cursor update for E of the batch, higher or lower
\* than before; the cursor of an event without one is unchanged.
C7_CursorOverwritten ==
    Returned("update") /\ last.res = "ok"
    => /\ DOMAIN event_block = DOMAIN pre.event_block
       /\ CursorNames \subseteq DOMAIN event_block
       /\ \A s \in DOMAIN event_block :
            event_block[s] = IF s \in CursorNames THEN LastCursorUpdate(s)
                             ELSE pre.event_block[s]

\* A successful update has lowered a cursor.
C7_Witness ==
    /\ Returned("update") /\ last.res = "ok"
    /\ \E s \in CursorNames :
            /\ s \in DOMAIN event_block /\ s \in DOMAIN pre.event_block
            /\ event_block[s].indexed < pre.event_block[s].indexed

\* C8 as stated: event_block(E) returns the cursor last written for E, which
\* is (0, 0) after the first successful prepare_event of E and (i, f) after
\* a successful update whose last cursor update for E is (i, f); it fails
\* for a name that was never prepared.
C8_EventBlockLastWritten ==
    /\ Returned("event_block")
       => IF sanitize_name(last.name) \in pre.prepared
          THEN /\ last.res = "ok"
               /\ sanitize_name(last.name) \in DOMAIN event_block
               /\ event_block[sanitize_name(last.name)] =
                    [indexed |-> last.indexed, finalized |-> last.finalized]
          ELSE last.res = "err"
    /\ Returned("prepare_event") /\ last.res = "ok"
            /\ sanitize_name(last.name) \notin pre.prepared
       => /\ sanitize_name(last.name) \in DOMAIN event_block
          /\ event_block[sanitize_name(last.name)] =
                [indexed |-> 0, finalized |-> 0]
    /\ Returned("update") /\ last.res = "ok"
       => \A s \in CursorNames :
            /\ s \in DOMAIN event_block
            /\ event_block[s] = LastCursorUpdate(s)

\* The greatest number of dynamic arrays around a point of the kinds ks.
RECURSIVE ArrayDepth(_)
ArrayDepth(ks) ==
    IF ks = <<>> THEN 0
    ELSE LET k == Head(ks)
         IN Max(IF k.tag = "Array" THEN 1 + ArrayDepth(k.sub)
                ELSE ArrayDepth(k.sub),
                ArrayDepth(Tail(ks)))

\* Some dynamic array lies inside a dynamic array of the kinds ks, directly
\* or through tuples and fixed arrays.
NestedDynamicArrays(ks) == ArrayDepth(ks) > 1

\* C9 as stated: without nested dynamic arrays, event_to_tables returns
\* 1 + (number of DynamicArray occurrences in the kind trees) tables, and
\* table 0 has as many columns as there are flattened scalar leaves outside
\* every dynamic array.
C9_TablesPerOccurrence ==
    Returned("event_to_tables") /\ ~NestedDynamicArrays(FieldKinds(last.event))
    => /\ last.res = "ok"
       /\ Len(last.tables) = 1 + DynamicArrayOccurrences(FieldKinds(last.event))
       /\ Len(last.tables[1]) = LeavesOutsideArrays(FieldKinds(last.event))

\* C9, amended: without nested dynamic arrays, event_to_tables returns
\* 1 + (number of dynamic arrays after flattening, one inside a fixed array
\* of n elements counting n times) tables, and table 0 has as many columns as
\* there are flattened scalar leaves outside every dynamic array.
C9_TablesPerInstance ==
    Returned("event_to_tables") /\ ~NestedDynamicArrays(FieldKinds(last.event))
    => /\ last.res = "ok"
       /\ Len(last.tables) = 1 + DynamicArrayInstances(FieldKinds(last.event))
       /\ Len(last.tables[1]) = LeavesOutsideArrays(FieldKinds(last.event))

\* event_to_tables has returned the tables of a descriptor with a dynamic
\* array inside a fixed array of several elements, next to a scalar.
C9_Witness ==
    /\ Returned("event_to_tables") /\ last.res = "ok"
    /\ DynamicArrayInstances(FieldKinds(last.event))
            > DynamicArrayOccurrences(FieldKinds(last.event))
    /\ LeavesOutsideArrays(FieldKinds(last.event)) > 0

\* C10: a descriptor with a dynamic array nested in a dynamic array makes
\* event_to_tables fail, and prepare_event fail without creating a table, a
\* cursor row or a registry entry; a descriptor whose dynamic arrays are
\* only siblings is not rejected by event_to_tables.
C10_NestedRejected ==
    /\ Returned("event_to_tables")
       => (last.res = "err" <=> NestedDynamicArrays(FieldKinds(last.event)))
    /\ Returned("prepare_event") /\ NestedDynamicArrays(FieldKinds(last.event))
       => last.res = "err" /\ NothingChanged

\* prepare_event has returned for an array of tuples holding an array.
C10_Witness ==
    /\ Returned("prepare_event")
    /\ Len(last.event.inputs) = 1
    /\ last.event.inputs[1].kind.tag = "Array"
    /\ last.event.inputs[1].kind.sub[1].tag = "Tuple"
    /\ NestedDynamicArrays(FieldKinds(last.event))

-----------------------------------------------------------------------------
\* Reading a log's values on the value trees themselves, without the
\* traversal.
\* The dynamic arrays of the values vs, in the order they are written.
RECURSIVE ArraysOf(_)
ArraysOf(vs) ==
    IF vs = <<>> THEN <<>>
    ELSE LET v == Head(vs)
         IN (CASE v.tag = "Array" -> <<v>> \o ArraysOf(v.sub)
               [] v.tag \in {"Tuple", "FixedArray"} -> ArraysOf(v.sub)
               [] OTHER -> <<>>)
            \o ArraysOf(Tail(vs))

\* The scalar leaves of the values vs outside every dynamic array, in the
\* order they are written, as the cells that hold them.
RECURSIVE LeavesOf(_)
LeavesOf(vs) ==
    IF vs = <<>> THEN <<>>
    ELSE LET v == Head(vs)
         IN (CASE v.tag = "Array" -> <<>>
               [] v.tag \in {"Tuple", "FixedArray"} -> LeavesOf(v.sub)
               [] OTHER -> <<SqlValueOf(v)>>)
            \o LeavesOf(Tail(vs))

\* The rows the last call has added to table k of the event named s.
AddedRows(s, k) ==
    LET key == TableKey(TableName(s, k))
    IN IF key \notin DOMAIN tables THEN {}
       ELSE IF key \notin DOMAIN pre.tables THEN tables[key].rows
       ELSE tables[key].rows \ pre.tables[key].rows

\* A successful update of exactly one log has returned.
StoredOneLog ==
    Returned("update") /\ last.res = "ok" /\ Len(last.logs) = 1

\* C11: a successful update that stores one log adds exactly one row to the
\* event's table 0 and, for the k-th dynamic array of the log with n
\* elements, exactly n rows to table k, with array_index 0..n-1 in element
\* order (row i holds element i); every added row carries the log's block
\* number and log index.
C11_RowsOfOneLog ==
    StoredOneLog =>
        LET log == last.logs[1]
            s == sanitize_name(log.event)
            arrays == ArraysOf(log.fields)
        IN /\ Cardinality(AddedRows(s, 0)) = 1
           /\ \A k \in 1..Len(arrays) :
                /\ Cardinality(AddedRows(s, k)) = Len(arrays[k].sub)
                /\ { r.array_index : r \in AddedRows(s, k) }
                        = 0..(Len(arrays[k].sub) - 1)
                /\ \A r \in AddedRows(s, k) :
                        r.cells = LeavesOf(<<arrays[k].sub[r.array_index + 1]>>)
           /\ \A k \in 0..Len(arrays) : \A r \in AddedRows(s, k) :
                /\ r.block_number = log.block_number
                /\ r.log_index = log.log_index

\* One log with an empty array and an array of two different elements has
\* been stored.
C11_Witness ==
    /\ StoredOneLog
    /\ \E a, b \in Range(ArraysOf(last.logs[1].fields)) :
            /\ a.sub = <<>>
            /\ Len(b.sub) = 2 /\ b.sub[1] # b.sub[2]

\* The log of the last update, when it had exactly one, does not fit the
\* registry the call started with: its event is not registered, or its
\* fields are not as many as the descriptor's, or one is of another kind.
OneLogMisfits ==
    /\ Returned("update") /\ Len(last.logs) = 1
    /\ LET log == last.logs[1]
           s == sanitize_name(log.event)
       IN \/ s \notin DOMAIN pre.events
          \/ Len(log.fields) # Len(pre.events[s].descriptor.inputs)
          \/ \E j \in 1..Len(log.fields) :
                value_kind(log.fields[j])
                    # pre.events[s].descriptor.inputs[j].kind

\* C12: a log whose field count or whose i-th field's kind is not the
\* registered descriptor's, or whose event is not in the registry, makes
\* update return an error, and no row has been written: the tables are as
\* before, and the transaction had written nothing unless the batch had
\* cursor updates.
C12_MisfitRejected ==
    OneLogMisfits =>
        /\ last.res = "err"
        /\ tables = pre.tables
        /\ (last.blocks = <<>> => ~last.wrote)

\* A log with the right number of fields, one of them of another kind, has
\* been refused after the batch had written a cursor.
C12_Witness ==
    /\ OneLogMisfits
    /\ last.res = "err" /\ last.wrote
    /\ LET log == last.logs[1]
           s == sanitize_name(log.event)
       IN /\ s \in DOMAIN pre.events
          /\ Len(log.fields) = Len(pre.events[s].descriptor.inputs)

\* The call that has returned was given a number that does not fit an i64:
\* a cursor value or a log's number for update, a block number for remove.
NumberOutOfRange ==
    /\ pc = "returned"
    /\ \/ \E j \in 1..Len(last.blocks) :
            \/ ~FitsI64(last.blocks[j].indexed)
            \/ ~FitsI64(last.blocks[j].finalized)
       \/ \E j \in 1..Len(last.logs) :
            \/ ~FitsI64(last.logs[j].block_number)
            \/ ~FitsI64(last.logs[j].log_index)
            \/ ~FitsI64(last.logs[j].transaction_index)
       \/ \E j \in 1..Len(last.uncles) : ~FitsI64(last.uncles[j].number)

\* C13 as stated: a call given a block number, log index or transaction
\* index that does not fit the signed 64-bit integer returns an error value
\* to the caller, never unwinds, and leaves registry and storage unchanged.
C13_RangeErrorReturned ==
    NumberOutOfRange => (last.res = "err" /\ NothingChanged)

\* The log of the last update, when it had exactly one, is of a registered
\* event and passes the field-count and kind checks.
OneLogFits ==
    /\ Returned("update") /\ Len(last.logs) = 1
    /\ ~OneLogMisfits

\* C14: for a registered descriptor and a log that passes the field-count
\* and kind checks, the value encoder gives as many value lists as the event
\* has tables (and insert statements), the list of each table has (column
\* count) x (element count, or 1 for table 0) cells, and store_event does
\* not unwind when the log's numbers are in range.
C14_TraversalsAgree ==
    OneLogFits =>
        LET log == last.logs[1]
            event == pre.events[sanitize_name(log.event)]
        IN \A tbls \in { event_to_tables(event.descriptor).tables } :
           \A sql_values \in { SqlValues(log.fields) } :
           /\ Len(sql_values) = Len(tbls)
           /\ Len(sql_values) = Len(event.insert_statements)
           /\ \A k \in 1..Len(sql_values) :
                /\ (sql_values[k].count = -1) = (k = 1)
                /\ Len(sql_values[k].values)
                      = Len(tbls[k])
                          * (IF k = 1 THEN 1 ELSE sql_values[k].count)
                /\ event.insert_statements[k].fields = Len(tbls[k])
           /\ (~NumberOutOfRange => last.inner # "panic")

\* A log with a dynamic array of two elements of two leaves each has been
\* stored after a leaf of table 0.
C14_Witness ==
    /\ OneLogFits /\ last.res = "ok"
    /\ \E a \in Range(ArraysOf(last.logs[1].fields)) :
            Len(a.sub) = 2 /\ Len(LeavesOf(a.sub)) = 4
    /\ LeavesOf(last.logs[1].fields) # <<>>

\* C15 as stated: when table 0 has as many columns as the event has fields,
\* its columns are named after the fields, every field is one scalar leaf
\* outside any array, and the column named after field j holds field j's
\* value in the row of a stored log; in every other case the columns of
\* table 0 are named c0, c1, ...
C15_FieldNamedColumns ==
    StoredOneLog =>
        LET log == last.logs[1]
            s == sanitize_name(log.event)
            inputs == pre.events[s].descriptor.inputs
            cols == tables[TableKey(TableName(s, 0))].cols
            row == CHOOSE r \in AddedRows(s, 0) : TRUE
        IN IF Len(cols) = Len(inputs)
           THEN \A j \in 1..Len(inputs) :
                    /\ cols[j].name = sanitize_name(inputs[j].name)
                    /\ LeavesOf(<<log.fields[j]>>) = <<row.cells[j]>>
           ELSE \A j \in 1..Len(cols) :
                    cols[j].name = <<"c">> \o Decimal(j - 1)

\* C16 as stated: after a successful remove, the indexed value of every
\* uncled event is less than or equal to what it was before the call.
C16_RemoveRewinds ==
    (Returned("remove") /\ last.res = "ok") =>
        \A s \in UncledNames :
            (s \in DOMAIN event_block /\ s \in DOMAIN pre.event_block) =>
                event_block[s].indexed <= pre.event_block[s].indexed

\* C17 as stated: prepare_event on an empty store, for a descriptor without
\* nested dynamic arrays and with pairwise distinct sanitized field names,
\* succeeds (whatever the commit then does), and the tables it has created
\* have pairwise distinct column names, the fixed columns included.
C17_PrepareSucceeds ==
    (/\ Returned("prepare_event")
     /\ pre.events = Empty /\ pre.tables = Empty
     /\ ~NestedDynamicArrays(FieldKinds(last.event))
     /\ ~HasDuplicateFieldName(last.event))
    => /\ last.inner = "ok"
       /\ \A t \in DOMAIN tables :
            LET names == FixedColumnNames(tables[t].is_array)
                            \o [j \in 1..Len(tables[t].cols) |->
                                    to_ascii_lowercase(tables[t].cols[j].name)]
            IN \A a, b \in 1..Len(names) : a # b => names[a] # names[b]

\* The rows of table k of the event registered under s (none when storage
\* has no such table).
RowsOf(s, k) ==
    LET key == TableKey(TableName(s, k))
    IN IF key \in DOMAIN tables THEN tables[key].rows ELSE {}

\* C18 as stated: in every committed state, for every registered event,
\* table 0 holds at most one row per (block number, log index), and every
\* row of an array table has a row of table 0 with the same (block number,
\* log index).
C18_TablesConsistent ==
    \A s \in DOMAIN events :
        /\ \A r1, r2 \in RowsOf(s, 0) :
                (r1.block_number = r2.block_number
                    /\ r1.log_index = r2.log_index) => r1 = r2
        /\ \A k \in 1..(Len(events[s].insert_statements) - 1) :
           \A r \in RowsOf(s, k) :
           \E r0 \in RowsOf(s, 0) :
                /\ r0.block_number = r.block_number
                /\ r0.log_index = r.log_index

=============================================================================
